---------------------------- MODULE Spec2Model ----------------------------
(***************************************************************************)
(* A model of scripts/audit.js (mdn_helper): the localisation audit.       *)
(*                                                                         *)
(* run() first builds latestCommits, the index from source path to the     *)
(* newest revision that touched it, by streaming `git log --format=":::    *)
(* %H" --name-only`; it then starts one asynchronous task per Markdown     *)
(* entry of the index and joins them with Promise.all.                     *)
(*                                                                         *)
(* Text is a sequence of one-character strings.  The directory prefix      *)
(* 'files/en-us/' of the source tree is written as the single token "F".   *)
(* Node runs every callback to completion, so each action below is one     *)
(* callback: one chunk of the stream, one settled file read, one event of  *)
(* a child process together with the continuation of the await on it.      *)
(***************************************************************************)
EXTENDS Integers, Sequences, FiniteSets, TLC

(***************************************************************************)
(* Bounds of the model.                                                    *)
(***************************************************************************)
\* the longest history feed, in lines
MaxLines == 4
\* the longest history feed of a run that is followed through its audit
MaxRunLines == 3
\* the largest partial read of the feed, in characters (a read may also
\* deliver everything that is left)
MaxChunk == 2

(***************************************************************************)
(* Text helpers (JavaScript's String methods on sequences of characters).  *)
(***************************************************************************)
NL == "\n"

\* JavaScript's null (for a value that is otherwise a text)
Null == <<"null">>

\* the test `if (x)` of a text-or-null: null, undefined and '' are falsy
Truthy(s) == s # Null /\ s # <<>>

\* s.startsWith(p)
StartsWith(s, p) == Len(s) >= Len(p) /\ SubSeq(s, 1, Len(p)) = p

\* s.endsWith(p)
EndsWith(s, p) == Len(s) >= Len(p) /\ SubSeq(s, Len(s) - Len(p) + 1, Len(s)) = p

\* s.substring(n)
Substring(s, n) == SubSeq(s, n + 1, Len(s))

\* white space as String.prototype.trim sees it
IsSpace(c) == c \in {" ", NL}

RECURSIVE TrimLeft(_)
TrimLeft(s) == IF s # <<>> /\ IsSpace(Head(s)) THEN TrimLeft(Tail(s)) ELSE s

RECURSIVE TrimRight(_)
TrimRight(s) ==
    IF s # <<>> /\ IsSpace(s[Len(s)]) THEN TrimRight(SubSeq(s, 1, Len(s) - 1)) ELSE s

\* s.trim()
Trim(s) == TrimRight(TrimLeft(s))

\* the index of the first "\n" of s, or 0
RECURSIVE IndexOfNL(_, _)
IndexOfNL(s, i) ==
    IF i > Len(s) THEN 0 ELSE IF s[i] = NL THEN i ELSE IndexOfNL(s, i + 1)

\* s.split('\n'): always at least one piece, the last one what follows the
\* last terminator
RECURSIVE Split(_)
Split(s) ==
    LET i == IndexOfNL(s, 1)
    IN  IF i = 0 THEN <<s>>
        ELSE <<SubSeq(s, 1, i - 1)>> \o Split(SubSeq(s, i + 1, Len(s)))

\* the first place where p occurs in s, or 0
RECURSIVE IndexOf(_, _, _)
IndexOf(s, p, i) ==
    IF i + Len(p) - 1 > Len(s) THEN 0
    ELSE IF SubSeq(s, i, i + Len(p) - 1) = p THEN i
    ELSE IndexOf(s, p, i + 1)

\* s.replace(p, ''): the first occurrence of p removed
RemoveFirst(s, p) ==
    LET i == IndexOf(s, p, 1)
    IN  IF i = 0 THEN s ELSE SubSeq(s, 1, i - 1) \o SubSeq(s, i + Len(p), Len(s))

(***************************************************************************)
(* The history feed: what `git log --format="::: %H" --name-only` writes.  *)
(***************************************************************************)
HeaderPrefix == <<":", ":", ":", " ">>
SrcPrefix    == <<"F">>
MdSuffix     == <<".", "m", "d">>

Rev1 == <<"1">>
Rev2 == <<"2">>
PathA == SrcPrefix \o <<"a">> \o MdSuffix
PathB == SrcPrefix \o <<"b">> \o MdSuffix
\* a tracked file that is not Markdown
PathC == SrcPrefix \o <<"c">>
\* the name a renamed document had before
PathO == SrcPrefix \o <<"o">> \o MdSuffix

\* a line of the feed: a header carrying a revision, a path, or the empty
\* line git puts after a header
Hdr(r)  == [kind |-> "hdr", text |-> r]
Path(p) == [kind |-> "path", text |-> p]
Blank   == [kind |-> "blank", text |-> <<>>]

LineSet == {Hdr(Rev1), Hdr(Rev2), Path(PathA), Path(PathB), Path(PathC), Blank}

\* the characters of one line, without its terminator
LineText(l) == IF l.kind = "hdr" THEN HeaderPrefix \o l.text ELSE l.text

\* the characters of a feed: every line followed by its terminator
RECURSIVE FeedText(_)
FeedText(ls) ==
    IF ls = <<>> THEN <<>> ELSE LineText(Head(ls)) \o <<NL>> \o FeedText(Tail(ls))

Feeds == UNION {[1..n -> LineSet] : n \in 0..MaxLines}

(***************************************************************************)
(* latestCommits: a Map, which keeps its keys in insertion order.          *)
(***************************************************************************)
MapHas(m, k) == \E i \in 1..Len(m) : m[i].key = k

MapSet(m, k, v) ==
    IF MapHas(m, k)
    THEN [i \in 1..Len(m) |-> IF m[i].key = k THEN [key |-> k, value |-> v] ELSE m[i]]
    ELSE Append(m, [key |-> k, value |-> v])

MapGet(m, k) == m[CHOOSE i \in 1..Len(m) : m[i].key = k].value

(***************************************************************************)
(* The body of the `for await` loop over gitLogProcess.stdout.             *)
(***************************************************************************)
\* ProcessLine without the test latestCommits.has(line): an older record of a
\* path overwrites the newer one
ProcessLineOverwriting(st, line) ==
    IF StartsWith(line, HeaderPrefix)
    THEN [st EXCEPT !.currentHash = Trim(Substring(line, 4))]
    ELSE IF Truthy(line) /\ Truthy(st.currentHash)
    THEN [st EXCEPT !.latestCommits = MapSet(@, line, st.currentHash)]
    ELSE st

\* one line of the inner loop, on st = [currentHash, latestCommits]
ProcessLine(st, line) ==
    IF StartsWith(line, HeaderPrefix)
    THEN [st EXCEPT !.currentHash = Trim(Substring(line, 4))]
    ELSE IF Truthy(line) /\ Truthy(st.currentHash) /\ ~MapHas(st.latestCommits, line)
    THEN [st EXCEPT !.latestCommits = MapSet(@, line, st.currentHash)]
    ELSE st

RECURSIVE ProcessLines(_, _)
ProcessLines(st, lines) ==
    IF lines = <<>> THEN st ELSE ProcessLines(ProcessLine(st, Head(lines)), Tail(lines))

\* CarryOver that forgets the unterminated rest of a chunk
CarryOverDropped(pieces) == <<>>

\* what is carried over to the next chunk: lines.pop()
CarryOver(pieces) == pieces[Len(pieces)]

\* ProcessChunk that reads the text after the last terminator as a line too,
\* besides carrying it over
ProcessChunkTailAsLine(ix, chunk) ==
    LET pieces == Split(ix.lineBuffer \o chunk)
        st     == ProcessLines([currentHash |-> ix.currentHash,
                                latestCommits |-> ix.latestCommits], pieces)
    IN  [lineBuffer    |-> CarryOver(pieces),
         currentHash   |-> st.currentHash,
         latestCommits |-> st.latestCommits]

\* one chunk, on ix = [lineBuffer, currentHash, latestCommits]
ProcessChunk(ix, chunk) ==
    LET pieces == Split(ix.lineBuffer \o chunk)
        lines  == SubSeq(pieces, 1, Len(pieces) - 1)
        st     == ProcessLines([currentHash |-> ix.currentHash,
                                latestCommits |-> ix.latestCommits], lines)
    IN  [lineBuffer    |-> CarryOver(pieces),
         currentHash   |-> st.currentHash,
         latestCommits |-> st.latestCommits]

\* the locals of run() before the loop
EmptyIndex == [lineBuffer |-> <<>>, currentHash |-> Null, latestCommits |-> <<>>]

(***************************************************************************)
(* The state of one run.                                                   *)
(***************************************************************************)
VARIABLES
    phase,          \* where run() is: "indexing", "indexed", "auditing", "done",
                    \* "failed" (run() rejected) or "crashed" (uncaught exception)
    history,        \* the lines git log writes in this run (the run's input)
    stdout,         \* the characters of the feed not yet read (never read, once
                    \* git log has died)
    gitLogExit,     \* "running", "ok", or "failed": git log died before the end
    lineBuffer,     \* run()'s carry-over of an unterminated line
    currentHash,    \* run()'s revision of the record being read
    latestCommits,  \* the index
    tasks,          \* processingPromises: one task per Markdown entry of the index
    returned,       \* the tasks that have returned their item, in the order in
                    \* which their promises were fulfilled
    report          \* the report, filled by the join

vars == <<phase, history, stdout, gitLogExit, lineBuffer, currentHash,
          latestCommits, tasks, returned, report>>

indexVars == <<lineBuffer, currentHash, latestCommits>>

Init ==
    /\ phase = "indexing"
    /\ history \in Feeds
    /\ stdout = FeedText(history)
    /\ gitLogExit = "running"
    /\ lineBuffer = EmptyIndex.lineBuffer
    /\ currentHash = EmptyIndex.currentHash
    /\ latestCommits = EmptyIndex.latestCommits
    /\ tasks = <<>>
    /\ returned = <<>>
    /\ report = <<>>

(***************************************************************************)
(* 1. The index build.                                                     *)
(***************************************************************************)
\* the sizes a read of the stream may have: nothing, a few characters, or
\* all that is left
ChunkSizes == {n \in 0..MaxChunk : n <= Len(stdout)} \cup {Len(stdout)}

\* one iteration of `for await (const chunk of gitLogProcess.stdout)`
ReadChunk ==
    /\ phase = "indexing"
    /\ \E n \in ChunkSizes :
          LET ix == ProcessChunk([lineBuffer |-> lineBuffer,
                                  currentHash |-> currentHash,
                                  latestCommits |-> latestCommits],
                                 SubSeq(stdout, 1, n))
          IN  /\ lineBuffer' = ix.lineBuffer
              /\ currentHash' = ix.currentHash
              /\ latestCommits' = ix.latestCommits
              /\ stdout' = SubSeq(stdout, n + 1, Len(stdout))
    /\ UNCHANGED <<phase, history, gitLogExit, tasks, returned, report>>

\* git log has written its whole history and the stream ends: the loop exits
EndOfStream ==
    /\ phase = "indexing"
    /\ stdout = <<>>
    /\ phase' = "indexed"
    /\ gitLogExit' = "ok"
    /\ UNCHANGED <<history, stdout, indexVars, tasks, returned, report>>

\* git log dies before it has written everything: what is left of stdout is
\* never written, the stream ends like any other and the loop exits (run()
\* never looks at the exit code)
GitLogDies ==
    /\ phase = "indexing"
    /\ stdout # <<>>
    /\ phase' = "indexed"
    /\ gitLogExit' = "failed"
    /\ UNCHANGED <<history, stdout, indexVars, tasks, returned, report>>

\* the stream itself fails: `for await` throws, run() rejects and
\* run().catch(console.error) prints the error
StreamError ==
    /\ phase = "indexing"
    /\ phase' = "failed"
    /\ gitLogExit' = "failed"
    /\ UNCHANGED <<history, stdout, indexVars, tasks, returned, report>>

(***************************************************************************)
(* 2. The per-document tasks.                                              *)
(***************************************************************************)
\* texts an entry's content can be: nothing, the localized document's text,
\* the source document's text, or the marker '(無法讀取英文原文)'
NoContent     == "null"
TransContent  == "transContent"
SourceContent == "sourceContent"
Unavailable   == "(unavailable)"

\* getGitDiff cuts the output of git diff at this many characters
DiffCap == 30000

\* the length of the marker appended to a cut output,
\* '\n... (差異過大，已截斷) ...'
MarkerLen == 19

\* a diff text: the first `len` characters of git's output, then the
\* truncation marker if `marker`; or one of the two fixed texts; or null.
\* (Every line of git diff's output ends with a line feed and the marker
\* does not, so no output ends with the marker.)
NullDiff   == [kind |-> "null", len |-> 0, marker |-> FALSE]
NoDiffText == [kind |-> "(no difference or new file)", len |-> 0, marker |-> FALSE]
ErrorText  == [kind |-> "Error generating diff", len |-> 0, marker |-> FALSE]
Output(n, m) == [kind |-> "output", len |-> n, marker |-> m]

\* the lengths git diff's output may have
DiffLens == {0, DiffCap, DiffCap + 1, DiffCap + MarkerLen}

\* what the localized file turns out to be when the task reads it: unreadable;
\* readable with front matter the parser rejects; readable without
\* l10n.sourceCommit; or readable with a recorded revision
LocUnreadable == [readable |-> FALSE, parses |-> FALSE, recorded |-> Null]
LocBadMeta    == [readable |-> TRUE, parses |-> FALSE, recorded |-> Null]
LocNoMeta     == [readable |-> TRUE, parses |-> TRUE, recorded |-> Null]
LocAt(r)      == [readable |-> TRUE, parses |-> TRUE, recorded |-> r]
LocSet == {LocUnreadable, LocBadMeta, LocNoMeta, LocAt(Rev1), LocAt(Rev2)}
\* before the read has settled
LocPending == [readable |-> FALSE, parses |-> FALSE, recorded |-> <<"pending">>]

(***************************************************************************)
(* The source repository as the git queries of one document see it: whether *)
(* fromHash names a revision of it at all, and the commits of              *)
(* fromHash..toHash that touched the document, newest first, each with the *)
(* document's name before (`pre`, Null when the commit created it) and     *)
(* after (`post`).                                                         *)
(***************************************************************************)
Commit(a, b) == [pre |-> a, post |-> b]

Histories(filePath) ==
    { <<Commit(filePath, filePath)>>,                              \* edited in place
      <<Commit(PathO, filePath), Commit(PathO, PathO)>>,           \* edited, then renamed
      <<Commit(PathO, filePath)>>,                                 \* renamed, nothing before
      <<Commit(Null, filePath)>> }                                 \* created in the range

GitEnvs(filePath) ==
    {[known |-> FALSE, commits |-> <<>>]}
        \cup {[known |-> TRUE, commits |-> h] : h \in Histories(filePath)}

NoGit == [known |-> FALSE, commits |-> <<"pending">>]

\* the document's name at fromHash
NameAtFrom(g) == g.commits[Len(g.commits)].pre

\* the document was renamed between fromHash and toHash
Renamed(g, filePath) == g.known /\ NameAtFrom(g) \notin {Null, filePath}

\* `git cat-file -e fromHash:filePath` exits with 0
GitCatFileExists(g, filePath) == g.known /\ NameAtFrom(g) = filePath

\* what `git log --follow --name-only --format= fromHash..toHash -- filePath`
\* prints: one line per commit, the name the document has after that commit
\* (for a rename, its new name); nothing when fromHash is unknown
RECURSIVE NameLines(_)
NameLines(cs) ==
    IF cs = <<>> THEN <<>> ELSE Head(cs).post \o <<NL>> \o NameLines(Tail(cs))

GitLogFollow(g) == IF g.known THEN NameLines(g.commits) ELSE <<>>

\* `git diff fromHash:oldPath toHash:filePath` has both blobs to compare
GitDiffResolves(g, oldPath) == g.known /\ NameAtFrom(g) = oldPath

(***************************************************************************)
(* findRenamedSource: the value its 'close' handler resolves with.         *)
(***************************************************************************)
NonBlank(lines) == SelectSeq(lines, LAMBDA l : Trim(l) # <<>>)

LastLine(lines) == lines[Len(lines)]

FindRenamedClose(data) ==
    LET lines == NonBlank(Split(Trim(data)))
    IN  IF Len(lines) > 0 THEN Trim(LastLine(lines)) ELSE Null

(***************************************************************************)
(* getGitDiff: the value its 'close' handler resolves with, for n          *)
(* characters of output.                                                   *)
(***************************************************************************)
\* Truncate as the older script had it: the output whole
TruncateNever(n) == Output(n, FALSE)

Truncate(n) == IF n > DiffCap THEN Output(DiffCap, TRUE) ELSE Output(n, FALSE)

DiffCloseValue(n) ==
    LET data == Truncate(n)
    IN  IF data.len > 0 THEN data ELSE NoDiffText

\* Resolve of a promise that every call settles anew
ResolveLastWins(promise, v) == [settled |-> TRUE, value |-> v]

\* resolve(v) of a promise: only the first call settles it
Resolve(promise, v) ==
    IF promise.settled THEN promise ELSE [settled |-> TRUE, value |-> v]

Unsettled == [settled |-> FALSE, value |-> NullDiff]

(***************************************************************************)
(* A task: the async function run() starts for one entry of the index.     *)
(* `item` is the AuditEntry it builds (the url field, a text derived from  *)
(* path alone, is left out); `pc` is the await it is suspended at.         *)
(* `loc`, `srcRead` and `git` record what the file system and git          *)
(* answered, `spawned` the git commands issued for the document,           *)
(* `renameBy` the event of git log --follow that settled the rename search *)
(* and `dataLen` the length of git diff's output at its 'close' (-1 before).*)
(***************************************************************************)
NoArgs == [from |-> Null, oldPath |-> Null, to |-> Null, path |-> Null]

NewItem(srcFilePath, hash) ==
    [path          |-> RemoveFirst(srcFilePath, SrcPrefix),
     status        |-> "untranslated",
     sourceCommit  |-> Null,
     currentCommit |-> hash,
     diff          |-> NullDiff,
     content       |-> NoContent]

NewTask(srcFilePath, hash) ==
    [src      |-> srcFilePath,
     item     |-> NewItem(srcFilePath, hash),
     pc       |-> "readTrans",
     loc      |-> LocPending,
     srcRead  |-> "none",
     git      |-> NoGit,
     spawned  |-> {},
     renameBy |-> "none",
     diffArgs |-> NoArgs,
     dataLen  |-> -1,
     child    |-> "none",
     promise  |-> Unsettled]

\* the fan-out loop without its filter
IsMarkdownAlways(srcFilePath) == TRUE

\* the filter of the fan-out loop: only Markdown
IsMarkdown(srcFilePath) == EndsWith(srcFilePath, MdSuffix)

RECURSIVE TasksOf(_)
TasksOf(m) ==
    IF m = <<>> THEN <<>>
    ELSE IF IsMarkdown(Head(m).key)
         THEN <<NewTask(Head(m).key, Head(m).value)>> \o TasksOf(Tail(m))
         ELSE TasksOf(Tail(m))

\* the catch branch, up to its read of the source document
CatchBranch(t) ==
    [t EXCEPT !.item.status = "untranslated", !.pc = "readSrcCatch"]

\* UpToDateBranch that attaches no content (as an older script did)
UpToDateBranchNoContent(t) ==
    [t EXCEPT !.item.status = "up_to_date", !.pc = "done"]

\* the branch of a recorded revision equal to the latest one
UpToDateBranch(t) ==
    [t EXCEPT !.item.status = "up_to_date",
              !.item.content = TransContent,
              !.pc = "done"]

\* the branch of a recorded revision that differs, up to getGitDiff's first
\* await (checkFileExists has spawned git cat-file)
OutdatedBranch(t) ==
    [t EXCEPT !.item.status = "outdated",
              !.item.content = TransContent,
              !.spawned = @ \cup {"cat-file"},
              !.pc = "checkExists"]

\* the branch of no recorded revision, up to its read of the source document
MissingMetaBranch(t) ==
    [t EXCEPT !.item.status = "missing_meta", !.pc = "readSrcMeta"]

\* the try block after the localized file was read and parsed
TryBody(t, recordedCommit) ==
    IF Truthy(recordedCommit)
    THEN LET t1 == [t EXCEPT !.item.sourceCommit = recordedCommit]
         IN  IF t1.item.sourceCommit = t1.item.currentCommit
             THEN UpToDateBranch(t1)
             ELSE OutdatedBranch(t1)
    ELSE MissingMetaBranch(t)

\* fs.readFile(transFilePath) settles, then matter() parses
TransReadSettles(t, loc) ==
    LET t1 == [t EXCEPT !.loc = loc]
    IN  IF loc.readable /\ loc.parses THEN TryBody(t1, loc.recorded) ELSE CatchBranch(t1)

\* fs.readFile(fullSrcPath) of the missing_meta branch settles
MetaSrcReadSettles(t, ok) ==
    IF ok
    THEN [t EXCEPT !.srcRead = "ok", !.item.content = SourceContent, !.pc = "done"]
    ELSE CatchBranch([t EXCEPT !.srcRead = "failed"])

\* CatchContent without the marker: a failed read leaves content null
CatchContentNull(ok) == IF ok THEN SourceContent ELSE NoContent

\* the content the catch branch stores
CatchContent(ok) == IF ok THEN SourceContent ELSE Unavailable

\* fs.readFile(fullSrcPath) of the catch branch settles
CatchSrcReadSettles(t, ok) ==
    [t EXCEPT !.srcRead = IF ok THEN "ok" ELSE "failed",
              !.item.content = CatchContent(ok),
              !.pc = "done"]

\* getGitDiff spawns git diff fromHash:oldPath toHash:filePath
SpawnDiff(t, oldPath) ==
    [t EXCEPT !.diffArgs = [from |-> t.item.sourceCommit, oldPath |-> oldPath,
                            to |-> t.item.currentCommit, path |-> t.src],
              !.spawned = @ \cup {"diff"},
              !.child = "running",
              !.pc = "diff"]

\* ExistsSettles that searches for a rename whatever the check answered
ExistsSettlesAlwaysSearching(t, existsAtOld) ==
    [t EXCEPT !.spawned = @ \cup {"log"}, !.pc = "findRenamed"]

\* getGitDiff after checkFileExists resolved
ExistsSettles(t, existsAtOld) ==
    IF existsAtOld
    THEN SpawnDiff(t, t.src)
    ELSE [t EXCEPT !.spawned = @ \cup {"log"}, !.pc = "findRenamed"]

\* RenameSettles that raises into the task's catch when nothing was detected
RenameSettlesRaising(t, detectedOldPath) ==
    IF Truthy(detectedOldPath) THEN SpawnDiff(t, detectedOldPath) ELSE CatchBranch(t)

\* getGitDiff after findRenamedSource resolved
RenameSettles(t, detectedOldPath) ==
    SpawnDiff(t, IF Truthy(detectedOldPath) THEN detectedOldPath ELSE t.src)

\* DiffEvent whose continuation returns the item without storing the diff
DiffEventUnstored(t, v, childAfter) ==
    [t EXCEPT !.promise = Resolve(t.promise, v),
              !.child = childAfter,
              !.pc = IF t.pc = "diff" THEN "done" ELSE @]

\* an event of the git diff child calls resolve(v); if the task is still
\* awaiting the promise, `item.diff = await ...` and `return item` follow
DiffEvent(t, v, childAfter) ==
    LET p == Resolve(t.promise, v)
    IN  [t EXCEPT !.promise = p,
                  !.child = childAfter,
                  !.item.diff = IF t.pc = "diff" THEN p.value ELSE @,
                  !.pc = IF t.pc = "diff" THEN "done" ELSE @]

(***************************************************************************)
(* The actions of the audit.                                               *)
(***************************************************************************)
auditUnchanged == <<history, stdout, gitLogExit, indexVars, report, phase>>

\* `return item` of task i fulfils its promise: the step that takes the task
\* to its end puts it last among the returned ones
Returns(i) ==
    returned' = IF tasks[i].pc # "done" /\ tasks'[i].pc = "done"
                THEN Append(returned, i) ELSE returned

\* FanOut that does not wait for the loop over the stream to end
FanOutEarly ==
    /\ phase \in {"indexing", "indexed"}
    /\ tasks = <<>>
    /\ tasks' = TasksOf(latestCommits)
    /\ phase' = IF phase = "indexed" THEN "auditing" ELSE phase
    /\ UNCHANGED <<history, stdout, gitLogExit, indexVars, returned, report>>

\* the loop over latestCommits: every task starts and runs to its first await
FanOut ==
    /\ phase = "indexed"
    /\ tasks' = TasksOf(latestCommits)
    /\ phase' = "auditing"
    /\ UNCHANGED <<history, stdout, gitLogExit, indexVars, returned, report>>

\* TransRead with one item shared by the tasks: the settled read decides for
\* every task that is still reading
TransReadSharedItem(i) ==
    /\ phase = "auditing"
    /\ tasks[i].pc = "readTrans"
    /\ \E loc \in LocSet :
          tasks' = [j \in 1..Len(tasks) |->
                       IF tasks[j].pc = "readTrans"
                       THEN TransReadSettles(tasks[j], loc) ELSE tasks[j]]
    /\ Returns(i)
    /\ UNCHANGED auditUnchanged

TransRead(i) ==
    /\ phase = "auditing"
    /\ tasks[i].pc = "readTrans"
    /\ \E loc \in LocSet : tasks' = [tasks EXCEPT ![i] = TransReadSettles(@, loc)]
    /\ Returns(i)
    /\ UNCHANGED auditUnchanged

MetaSrcRead(i) ==
    /\ phase = "auditing"
    /\ tasks[i].pc = "readSrcMeta"
    /\ \E ok \in BOOLEAN : tasks' = [tasks EXCEPT ![i] = MetaSrcReadSettles(@, ok)]
    /\ Returns(i)
    /\ UNCHANGED auditUnchanged

CatchSrcRead(i) ==
    /\ phase = "auditing"
    /\ tasks[i].pc = "readSrcCatch"
    /\ \E ok \in BOOLEAN : tasks' = [tasks EXCEPT ![i] = CatchSrcReadSettles(@, ok)]
    /\ Returns(i)
    /\ UNCHANGED auditUnchanged

\* 'close' of git cat-file
ExistsClose(i) ==
    /\ phase = "auditing"
    /\ tasks[i].pc = "checkExists"
    /\ \E g \in GitEnvs(tasks[i].src) :
          tasks' = [tasks EXCEPT ![i] =
                       ExistsSettles([@ EXCEPT !.git = g], GitCatFileExists(g, @.src))]
    /\ Returns(i)
    /\ UNCHANGED auditUnchanged

\* 'error' of git cat-file (it could not be spawned): checkFileExists has no
\* listener for it, so the event is thrown as an uncaught exception
ExistsError(i) ==
    /\ phase = "auditing"
    /\ tasks[i].pc = "checkExists"
    /\ phase' = "crashed"
    /\ UNCHANGED <<history, stdout, gitLogExit, indexVars, report, tasks, returned>>

\* 'close' of git log --follow
RenameClose(i) ==
    /\ phase = "auditing"
    /\ tasks[i].pc = "findRenamed"
    /\ tasks' = [tasks EXCEPT ![i] =
                    RenameSettles([@ EXCEPT !.renameBy = "close"],
                                  FindRenamedClose(GitLogFollow(@.git)))]
    /\ Returns(i)
    /\ UNCHANGED auditUnchanged

\* 'error' of git log --follow: resolve(null)
RenameError(i) ==
    /\ phase = "auditing"
    /\ tasks[i].pc = "findRenamed"
    /\ tasks' = [tasks EXCEPT ![i] =
                    RenameSettles([@ EXCEPT !.renameBy = "error"], Null)]
    /\ Returns(i)
    /\ UNCHANGED auditUnchanged

\* the lengths the output of this task's git diff may have: nothing if the
\* child never ran or a blob is missing
OutputLens(t) ==
    IF t.child = "running" /\ GitDiffResolves(t.git, t.diffArgs.oldPath)
    THEN DiffLens ELSE {0}

\* 'close' of git diff, first or after its 'error'
DiffClose(i) ==
    /\ phase \in {"auditing", "done"}
    /\ tasks[i].child \in {"running", "errored"}
    /\ \E n \in OutputLens(tasks[i]) :
          tasks' = [tasks EXCEPT ![i] =
                       DiffEvent([@ EXCEPT !.dataLen = n], DiffCloseValue(n), "closed")]
    /\ Returns(i)
    /\ UNCHANGED auditUnchanged

\* 'error' of git diff
DiffError(i) ==
    /\ phase = "auditing"
    /\ tasks[i].child = "running"
    /\ tasks' = [tasks EXCEPT ![i] = DiffEvent(@, ErrorText, "errored")]
    /\ Returns(i)
    /\ UNCHANGED auditUnchanged

\* Join that collects the items in the order in which the tasks returned
JoinInReturnOrder ==
    /\ phase = "auditing"
    /\ \A i \in 1..Len(tasks) : tasks[i].pc = "done"
    /\ report' = [k \in 1..Len(returned) |-> tasks[returned[k]].item]
    /\ phase' = "done"
    /\ UNCHANGED <<history, stdout, gitLogExit, indexVars, tasks, returned>>

\* Promise.all resolves once every task has returned its item;
\* report.push(...results)
Join ==
    /\ phase = "auditing"
    /\ \A i \in 1..Len(tasks) : tasks[i].pc = "done"
    /\ report' = [i \in 1..Len(tasks) |-> tasks[i].item]
    /\ phase' = "done"
    /\ UNCHANGED <<history, stdout, gitLogExit, indexVars, tasks, returned>>

Next ==
    \/ ReadChunk
    \/ EndOfStream
    \/ GitLogDies
    \/ StreamError
    \/ FanOut
    \/ \E i \in 1..Len(tasks) : TransRead(i)
    \/ \E i \in 1..Len(tasks) : MetaSrcRead(i)
    \/ \E i \in 1..Len(tasks) : CatchSrcRead(i)
    \/ \E i \in 1..Len(tasks) : ExistsClose(i)
    \/ \E i \in 1..Len(tasks) : ExistsError(i)
    \/ \E i \in 1..Len(tasks) : RenameClose(i)
    \/ \E i \in 1..Len(tasks) : RenameError(i)
    \/ \E i \in 1..Len(tasks) : DiffClose(i)
    \/ \E i \in 1..Len(tasks) : DiffError(i)
    \/ Join

\* a whole run, of a feed of at most MaxRunLines lines
InitRun == Init /\ Len(history) <= MaxRunLines

Spec == InitRun /\ [][Next]_vars

\* the index build alone, of every feed
NextIndex ==
    \/ ReadChunk
    \/ EndOfStream
    \/ GitLogDies
    \/ StreamError

SpecIndex == Init /\ [][NextIndex]_vars

(***************************************************************************)
(* Properties of the index build.                                          *)
(***************************************************************************)
\* the paths a feed names
PathsNamed(h) == {h[i].text : i \in {j \in 1..Len(h) : h[j].kind = "path"}}

\* a feed as git log writes it: every path line stands under a header
WellFormed(h) ==
    \A i \in 1..Len(h) :
        h[i].kind = "path" => \E j \in 1..(i - 1) : h[j].kind = "hdr"

\* the line where path p first appears in h
FirstLineOf(h, p) ==
    CHOOSE i \in 1..Len(h) :
        /\ h[i] = Path(p)
        /\ \A j \in 1..(i - 1) : h[j] # Path(p)

\* the revision of the header line i stands under
HeaderOver(h, i) ==
    LET j == CHOOSE k \in 1..(i - 1) :
                 /\ h[k].kind = "hdr"
                 /\ \A m \in (k + 1)..(i - 1) : h[m].kind # "hdr"
    IN  h[j].text

KeysOf(m) == {m[i].key : i \in 1..Len(m)}

\* the feed was read to its end
FeedConsumed == phase = "indexed" /\ gitLogExit = "ok"

\* C1: once a well-formed newest-first feed has been consumed, latestCommits
\* holds exactly one entry for every path the feed names, and its value is the
\* revision of the newest (first) header under which the path appears.
C1_NewestRevisionWins ==
    (FeedConsumed /\ WellFormed(history)) =>
        /\ KeysOf(latestCommits) = PathsNamed(history)
        /\ Len(latestCommits) = Cardinality(PathsNamed(history))
        /\ \A i \in 1..Len(latestCommits) :
              latestCommits[i].value =
                  HeaderOver(history, FirstLineOf(history, latestCommits[i].key))

\* a consumed feed that names one path under two headers of different revisions
C1_Witness ==
    /\ FeedConsumed
    /\ WellFormed(history)
    /\ \E i, k \in 1..Len(history) :
          /\ i < k
          /\ history[i].kind = "path"
          /\ history[k] = history[i]
          /\ HeaderOver(history, i) # HeaderOver(history, k)
          /\ MapGet(latestCommits, history[i].text) = HeaderOver(history, i)

\* the characters of the feed read so far
Delivered ==
    SubSeq(FeedText(history), 1, Len(FeedText(history)) - Len(stdout))

\* C9: however the feed text was cut into chunks, the carry-over buffer, the
\* current revision and the index are those of reading the same text in one
\* chunk; in particular the final index is.
C9_ChunkIndependence ==
    [lineBuffer |-> lineBuffer, currentHash |-> currentHash,
     latestCommits |-> latestCommits] = ProcessChunk(EmptyIndex, Delivered)

\* a read has ended inside a header line, after an entry was indexed, and the
\* partial line is waiting in the carry-over buffer
C9_Witness ==
    /\ phase = "indexing"
    /\ latestCommits # <<>>
    /\ Len(lineBuffer) \in 1..3
    /\ lineBuffer = SubSeq(HeaderPrefix, 1, Len(lineBuffer))
    /\ Len(stdout) > 0

(***************************************************************************)
(* Properties of the audit.                                                *)
(***************************************************************************)
Tasks == 1..Len(tasks)

\* the task has returned its item: the AuditEntry is emitted
Emitted(i) == tasks[i].pc = "done"

\* the task's localized document was read and parsed
Readable(i) == tasks[i].loc.readable /\ tasks[i].loc.parses

\* the revision the index holds for the task's source path
Latest(i) == MapGet(latestCommits, tasks[i].src)

\* the decision table of the status: localized document not readable,
\* recorded revision absent, recorded equal to latest, otherwise
TableStatus(i) ==
    IF ~Readable(i) THEN "untranslated"
    ELSE IF ~Truthy(tasks[i].loc.recorded) THEN "missing_meta"
    ELSE IF tasks[i].loc.recorded = Latest(i) THEN "up_to_date"
    ELSE "outdated"

\* C2: every emitted entry carries the status the ordered table gives for
\* (localized readable, recorded revision present, recorded = latest).
C2_StatusFollowsTable ==
    \A i \in Tasks : Emitted(i) => tasks[i].item.status = TableStatus(i)

\* the index positions whose key is a Markdown path
MarkdownEntries == {i \in 1..Len(latestCommits) : EndsWith(latestCommits[i].key, MdSuffix)}

\* the report entries that stand for index entry i
EntriesFor(i) ==
    {j \in 1..Len(report) : report[j].path = RemoveFirst(latestCommits[i].key, SrcPrefix)}

C4_NoAuditOfPartialIndex ==
    gitLogExit = "failed" => (tasks = <<>> /\ report = <<>>)

\* C5: an emitted entry of a readable localized document whose recorded
\* revision equals the indexed latest one is up_to_date, has no diff, the
\* localized text as content, and no git command was issued for it.
C5_UpToDateRoundTrip ==
    \A i \in Tasks :
        (Emitted(i) /\ Readable(i) /\ tasks[i].loc.recorded = Latest(i)) =>
            /\ tasks[i].item.status = "up_to_date"
            /\ tasks[i].item.sourceCommit = Latest(i)
            /\ tasks[i].item.diff = NullDiff
            /\ tasks[i].item.content = TransContent
            /\ tasks[i].spawned = {}

\* a report with an up_to_date entry beside an outdated one
C5_Witness ==
    /\ phase = "done"
    /\ \E i, j \in Tasks :
          /\ Readable(i) /\ tasks[i].loc.recorded = Latest(i)
          /\ report[i].status = "up_to_date"
          /\ report[j].status = "outdated"

\* C6: an emitted entry has a diff exactly if it is outdated; the diff is
\* the settled result of git diff between the recorded revision and the
\* latest revision of the document's source path; no rename search and no
\* diff was issued for an entry of another status.
C6_DiffIffOutdated ==
    \A i \in Tasks :
        Emitted(i) =>
            /\ tasks[i].item.diff # NullDiff <=> tasks[i].item.status = "outdated"
            /\ tasks[i].item.status = "outdated" =>
                  /\ tasks[i].item.sourceCommit = tasks[i].loc.recorded
                  /\ tasks[i].diffArgs.from = tasks[i].loc.recorded
                  /\ tasks[i].diffArgs.to = Latest(i)
                  /\ tasks[i].diffArgs.path = tasks[i].src
                  /\ tasks[i].promise.settled
                  /\ tasks[i].item.diff = tasks[i].promise.value
            /\ tasks[i].item.status # "outdated" =>
                  tasks[i].spawned \cap {"log", "diff"} = {}

\* an outdated entry with the output of git diff, emitted beside an entry
\* without recorded revision
C6_Witness ==
    \E i, j \in Tasks :
        /\ Emitted(i) /\ Emitted(j)
        /\ tasks[i].item.status = "outdated"
        /\ tasks[i].item.diff.kind = "output"
        /\ tasks[j].item.status = "missing_meta"

\* C7: an emitted entry of a readable localized document without recorded
\* revision is missing_meta with sourceCommit null, and carries the source
\* text whenever a read of it succeeded; whatever the source read did.
C7_MissingMetaWhateverTheSourceRead ==
    \A i \in Tasks :
        (Emitted(i) /\ Readable(i) /\ ~Truthy(tasks[i].loc.recorded)) =>
            /\ tasks[i].item.status = "missing_meta"
            /\ tasks[i].item.sourceCommit = Null
            /\ tasks[i].srcRead = "ok" => tasks[i].item.content = SourceContent

\* C8: an emitted entry whose localized document could not be opened is
\* untranslated, and the content of an untranslated entry is the source text
\* if it was read and the marker otherwise, never null.
C8_UntranslatedContent ==
    \A i \in Tasks :
        Emitted(i) =>
            /\ ~tasks[i].loc.readable => tasks[i].item.status = "untranslated"
            /\ tasks[i].item.status = "untranslated" =>
                  /\ tasks[i].item.content # NoContent
                  /\ tasks[i].item.content =
                        IF tasks[i].srcRead = "ok" THEN SourceContent ELSE Unavailable

\* two emitted entries of documents that could not be opened: one with the
\* source text, one with the marker
C8_Witness ==
    \E i, j \in Tasks :
        /\ Emitted(i) /\ Emitted(j)
        /\ ~tasks[i].loc.readable /\ ~tasks[j].loc.readable
        /\ tasks[i].item.content = SourceContent
        /\ tasks[j].item.content = Unavailable

\* C10: for a document renamed between fromHash and toHash whose rename
\* search ended with 'close', the existence check failed, the resolver
\* returned the old name and git diff compares (fromHash, old name) with
\* (toHash, new name).
C10_RenameResolved ==
    \A i \in Tasks :
        (Renamed(tasks[i].git, tasks[i].src) /\ tasks[i].renameBy = "close") =>
            /\ "log" \in tasks[i].spawned
            /\ tasks[i].diffArgs =
                  [from    |-> tasks[i].item.sourceCommit,
                   oldPath |-> NameAtFrom(tasks[i].git),
                   to      |-> tasks[i].item.currentCommit,
                   path    |-> tasks[i].src]


(***************************************************************************)
(* Properties of getGitDiff.                                               *)
(***************************************************************************)
\* the git commands of task i, before and after a step
SpawnedBefore(i) == IF i \in Tasks THEN tasks[i].spawned ELSE {}
SpawnedAfter(i)  == tasks'[i].spawned

\* the arguments of a diff of the document against itself
SamePathArgs(i) ==
    [from    |-> tasks[i].item.sourceCommit,
     oldPath |-> tasks[i].src,
     to      |-> tasks[i].item.currentCommit,
     path    |-> tasks[i].src]

\* a step issues the commands of one document in the order cat-file, then
\* git log --follow only after a failed check, then git diff
SpawnOrder(i) ==
    \/ SpawnedAfter(i) = SpawnedBefore(i)
    \/ /\ SpawnedBefore(i) = {}
       /\ SpawnedAfter(i) = {"cat-file"}
    \/ /\ SpawnedBefore(i) = {"cat-file"}
       /\ SpawnedAfter(i) = {"cat-file", "log"}
       /\ ~GitCatFileExists(tasks'[i].git, tasks'[i].src)
    \/ /\ SpawnedBefore(i) = {"cat-file"}
       /\ SpawnedAfter(i) = {"cat-file", "diff"}
       /\ GitCatFileExists(tasks'[i].git, tasks'[i].src)
    \/ /\ SpawnedBefore(i) = {"cat-file", "log"}
       /\ SpawnedAfter(i) = {"cat-file", "log", "diff"}

\* C11: for a document whose path exists at fromHash no rename search is
\* issued and git diff compares (fromHash, path) with (toHash, path); and
\* every step issues a document's commands in the order existence check,
\* rename search only after a failed check, diff.
C11_NoSearchWhenPathExists ==
    /\ [](\A i \in Tasks :
             GitCatFileExists(tasks[i].git, tasks[i].src) =>
                 /\ "log" \notin tasks[i].spawned
                 /\ "diff" \in tasks[i].spawned
                 /\ tasks[i].diffArgs = SamePathArgs(i))
    /\ [][\A i \in 1..Len(tasks') : SpawnOrder(i)]_vars

\* an emitted outdated entry of a document whose path exists at fromHash,
\* with the output of its diff
C11_Witness ==
    \E i \in Tasks :
        /\ Emitted(i)
        /\ GitCatFileExists(tasks[i].git, tasks[i].src)
        /\ tasks[i].spawned = {"cat-file", "diff"}
        /\ tasks[i].item.diff.kind = "output"


\* the rename search of task i has settled without a prior path: git log
\* --follow printed nothing, or could not be run
NoPriorPath(i) ==
    \/ tasks[i].renameBy = "error"
    \/ tasks[i].renameBy = "close" /\ GitLogFollow(tasks[i].git) = <<>>

\* C12: once the existence check has failed and the rename search has
\* printed nothing or ended with 'error', git diff is issued with the
\* document's path on both sides, the task is awaiting the diff or has
\* returned, and its entry is outdated.
C12_NoPriorPathDegrades ==
    \A i \in Tasks :
        NoPriorPath(i) =>
            /\ ~GitCatFileExists(tasks[i].git, tasks[i].src)
            /\ tasks[i].spawned = {"cat-file", "log", "diff"}
            /\ tasks[i].diffArgs = SamePathArgs(i)
            /\ tasks[i].pc \in {"diff", "done"}
            /\ tasks[i].item.status = "outdated"
            /\ tasks[i].item.sourceCommit = tasks[i].loc.recorded

\* two emitted entries: one whose rename search printed nothing, one whose
\* rename search ended with 'error'
C12_Witness ==
    \E i, j \in Tasks :
        /\ Emitted(i) /\ Emitted(j)
        /\ tasks[i].renameBy = "close" /\ GitLogFollow(tasks[i].git) = <<>>
        /\ tasks[j].renameBy = "error"
        /\ tasks[i].item.status = "outdated"
        /\ tasks[j].item.status = "outdated"


\* the number of characters of a diff text made of git's output
TextLen(d) == d.len + IF d.marker THEN MarkerLen ELSE 0

\* C13: once git diff has closed with n characters of output, the resolved
\* text (and the entry's diff, once emitted) is, for n > DiffCap, the first
\* DiffCap characters followed by the marker, DiffCap + MarkerLen long and
\* different from the whole output; for 0 < n <= DiffCap, the output itself.
C13_TruncationAtCap ==
    \A i \in Tasks :
        LET n == tasks[i].dataLen
            d == tasks[i].promise.value
        IN  /\ n > DiffCap =>
                  /\ d = Output(DiffCap, TRUE)
                  /\ TextLen(d) = DiffCap + MarkerLen
                  /\ d # Output(n, FALSE)
            /\ (0 < n /\ n <= DiffCap) => d = Output(n, FALSE)
            /\ (n > 0 /\ Emitted(i)) => tasks[i].item.diff = d

\* two emitted entries: one whose diff output was exactly as long as a cut
\* text with its marker, one whose output was exactly DiffCap characters
C13_Witness ==
    \E i, j \in Tasks :
        /\ Emitted(i) /\ Emitted(j)
        /\ tasks[i].dataLen = DiffCap + MarkerLen
        /\ tasks[i].item.diff = Output(DiffCap, TRUE)
        /\ tasks[j].dataLen = DiffCap
        /\ tasks[j].item.diff = Output(DiffCap, FALSE)


\* C14: every emitted outdated entry has a field `truncated` beside its
\* diff, true exactly if git diff's output was longer than DiffCap.
C14_TruncationFlag ==
    \A i \in Tasks :
        (Emitted(i) /\ tasks[i].item.status = "outdated") =>
            /\ "truncated" \in DOMAIN tasks[i].item
            /\ tasks[i].item.truncated = (tasks[i].dataLen > DiffCap)


\* the entry of task i is emitted and its git diff ran
DiffRan(i) == Emitted(i) /\ "diff" \in tasks[i].spawned

\* git diff compared the two blobs and found no textual change
DiffValidEmpty(i) ==
    /\ DiffRan(i)
    /\ tasks[i].promise.value # ErrorText
    /\ GitDiffResolves(tasks[i].git, tasks[i].diffArgs.oldPath)
    /\ tasks[i].dataLen = 0

\* git diff failed: it could not be run, or a blob it was to compare does
\* not exist
DiffFailed(i) ==
    /\ DiffRan(i)
    /\ \/ tasks[i].promise.value = ErrorText
       \/ ~GitDiffResolves(tasks[i].git, tasks[i].diffArgs.oldPath)

\* C15: the diff stored for a comparison that succeeded without textual
\* change is never equal to the diff stored for a comparison that failed.
C15_EmptyDistinctFromFailed ==
    \A i, j \in Tasks :
        (DiffValidEmpty(i) /\ DiffFailed(j)) =>
            tasks[i].item.diff # tasks[j].item.diff


\* task i has decided that its document is outdated and called getGitDiff
InGetGitDiff(i) == "cat-file" \in tasks[i].spawned

\* what the outdated branch decided before it called getGitDiff
DecisionKept(i) ==
    /\ tasks[i].item.status = "outdated"
    /\ tasks[i].item.sourceCommit = tasks[i].loc.recorded
    /\ tasks[i].item.currentCommit = Latest(i)
    /\ tasks[i].item.content = TransContent

\* a step that changes task i changes no other task's entry
OthersUntouched(i) ==
    tasks'[i] # tasks[i] =>
        \A j \in Tasks \ {i} : tasks'[j].item = tasks[j].item

\* C16: whatever fails in getGitDiff, nothing is raised out of the task (the
\* run does not crash and the task does not enter its catch), the entry
\* keeps the decided status, revisions and content, a failed diff stores a
\* placeholder, and no step of one task changes another task's entry.
C16_FailureIsLocal ==
    /\ [](/\ phase # "crashed"
          /\ \A i \in Tasks :
                InGetGitDiff(i) =>
                    /\ DecisionKept(i)
                    /\ tasks[i].pc \in {"checkExists", "findRenamed", "diff", "done"}
                    /\ DiffFailed(i) => tasks[i].item.diff \in {NoDiffText, ErrorText})
    /\ [][\A i \in Tasks : OthersUntouched(i)]_vars


(***************************************************************************)
(* Properties of the run as a whole.                                       *)
(***************************************************************************)
\* the report holds the entry of every task
ReportComplete ==
    /\ phase = "done"
    /\ \A i \in Tasks : Emitted(i)
    /\ report = [i \in Tasks |-> tasks[i].item]

\* C17: the run can stop only with a complete report or with the fatal
\* error of the feed: in every state where no read, no event of a child and
\* no join is left to happen, every task has returned and the join has
\* pushed every entry, or the feed has failed.
C17_RunEndsWithReportOrFeedError ==
    ENABLED Next \/ ReportComplete \/ phase = "failed"


\* the entries of the index that the fan-out starts a task for, in order
MarkdownIndex == SelectSeq(latestCommits, LAMBDA e : IsMarkdown(e.key))

\* the states one completion can take task t to when the task runs alone
SoloStep(t) ==
    IF t.pc = "readTrans" THEN {TransReadSettles(t, loc) : loc \in LocSet}
    ELSE IF t.pc = "readSrcMeta" THEN {MetaSrcReadSettles(t, ok) : ok \in BOOLEAN}
    ELSE IF t.pc = "readSrcCatch" THEN {CatchSrcReadSettles(t, ok) : ok \in BOOLEAN}
    ELSE IF t.pc = "checkExists"
    THEN {ExistsSettles([t EXCEPT !.git = g], GitCatFileExists(g, t.src)) :
              g \in GitEnvs(t.src)}
    ELSE IF t.pc = "findRenamed"
    THEN {RenameSettles([t EXCEPT !.renameBy = "close"],
                        FindRenamedClose(GitLogFollow(t.git))),
          RenameSettles([t EXCEPT !.renameBy = "error"], Null)}
    ELSE {DiffEvent([t EXCEPT !.dataLen = n], DiffCloseValue(n), "closed") :
              n \in IF t.child \in {"running", "errored"} THEN OutputLens(t) ELSE {}}
         \cup {DiffEvent(t, ErrorText, "errored") :
                  x \in IF t.child = "running" THEN {0} ELSE {}}

\* state s of a task has received no answer that differs from the answers
\* recorded in t (the two reads of the source document are not told apart)
SameAnswers(s, t) ==
    /\ s.loc \in {LocPending, t.loc}
    /\ s.git \in {NoGit, t.git}
    /\ s.renameBy \in {"none", t.renameBy}
    /\ s.dataLen \in {-1, t.dataLen}

\* every state a task started as t0 can come to when it runs alone and is
\* given the answers recorded in t
RECURSIVE SoloFrom(_, _, _)
SoloFrom(seen, frontier, t) ==
    LET new == {s \in UNION {SoloStep(f) : f \in frontier} : SameAnswers(s, t)} \ seen
    IN  IF new = {} THEN seen ELSE SoloFrom(seen \cup new, new, t)

SoloRuns(t0, t) == SoloFrom({t0}, {t0}, t)

\* the task the fan-out starts for the i-th Markdown entry of the index
Started(i) == NewTask(MarkdownIndex[i].key, MarkdownIndex[i].value)

\* a step of the audit: the fan-out starts every task from the index alone,
\* and any other step that changes task i takes it where the same completion
\* takes it when it runs alone, and changes no other task
IndependentStep ==
    /\ (tasks = <<>> /\ tasks' # <<>>) =>
           tasks' = [i \in 1..Len(MarkdownIndex) |-> Started(i)]
    /\ \A i \in Tasks :
           tasks'[i] # tasks[i] =>
               /\ tasks'[i] \in SoloStep(tasks[i])
               /\ \A j \in Tasks \ {i} : tasks'[j] = tasks[j]
    /\ latestCommits # <<>> /\ tasks # <<>> => latestCommits' = latestCommits

\* C18: however the completions of the tasks interleave, every step of a
\* task is a step of that task running alone and touches no other task, so
\* that each entry of the finished report, in the order of the index, is an
\* entry its task returns when it runs alone with the same answers.
C18_TasksIndependent ==
    /\ [][IndependentStep]_vars
    /\ [](phase = "done" =>
             /\ Len(report) = Len(MarkdownIndex)
             /\ \A i \in Tasks :
                   /\ report[i] = tasks[i].item
                   /\ tasks[i] \in SoloRuns(Started(i), tasks[i]))

\* the task of the second document has returned an outdated entry with the
\* output of its diff while the task of the first is still searching for a
\* rename
C18_Witness ==
    /\ phase = "auditing"
    /\ Len(tasks) = 2
    /\ tasks[1].pc = "findRenamed"
    /\ Emitted(2)
    /\ tasks[2].item.status = "outdated"
    /\ tasks[2].item.diff.kind = "output"


\* the stream of git log has ended and the loop over it has exited
StreamEnded == gitLogExit # "running" /\ phase # "indexing"

\* the fan-out loop has run
FannedOut == phase \in {"auditing", "done", "crashed"}

\* C19: tasks exist only after the stream of git log was read to its end,
\* with the index being that of everything the stream delivered; and once
\* the loop over the stream has exited it is never entered again and no
\* step adds, removes or changes an entry of latestCommits.
C19_IndexBuiltOnceThenFrozen ==
    /\ [](/\ tasks # <<>> => (StreamEnded /\ FannedOut)
          /\ FannedOut =>
                (StreamEnded /\
                 latestCommits = ProcessChunk(EmptyIndex, Delivered).latestCommits))
    /\ [][phase # "indexing" =>
             (phase' # "indexing" /\ latestCommits' = latestCommits)]_vars

\* two tasks have gone different ways, one has returned, and the index is
\* still the one the whole feed gave
C19_Witness ==
    /\ phase = "auditing"
    /\ gitLogExit = "ok"
    /\ Len(latestCommits) = 2
    /\ Len(tasks) = 2
    /\ Emitted(1)
    /\ tasks[2].pc = "diff"
    /\ latestCommits = ProcessChunk(EmptyIndex, FeedText(history)).latestCommits


(***************************************************************************)
(* Properties of the line parsing.                                         *)
(***************************************************************************)
\* the number of lines of the feed delivered with their terminator
LinesDelivered ==
    CHOOSE k \in 0..Len(history) :
        /\ Len(FeedText(SubSeq(history, 1, k))) <= Len(Delivered)
        /\ \A m \in (k + 1)..Len(history) :
              Len(FeedText(SubSeq(history, 1, m))) > Len(Delivered)

\* C20: at every moment of the index build and after it, every key of the
\* index is non-empty, does not begin with the header prefix, and is the
\* text of a path line that was delivered with its terminator after some
\* header line; so text waiting in the carry-over buffer is no key, neither
\* mid-stream nor when the stream has ended.
C20_KeysAreCompletePathLines ==
    \A key \in KeysOf(latestCommits) :
        /\ key # <<>>
        /\ ~StartsWith(key, HeaderPrefix)
        /\ \E j \in 1..LinesDelivered :
              /\ history[j] = Path(key)
              /\ \E h \in 1..(j - 1) : history[h].kind = "hdr"

\* the stream ended, after a path line before any header, a header, an
\* indexed path and an empty line, with a whole path in the carry-over
\* buffer whose terminator never came
C20_Witness ==
    /\ phase = "indexed"
    /\ gitLogExit = "failed"
    /\ history[1].kind = "path"
    /\ history[1].text \notin KeysOf(latestCommits)
    /\ latestCommits # <<>>
    /\ lineBuffer = PathA
    /\ PathA \notin KeysOf(latestCommits)
    /\ Truthy(currentHash)


(***************************************************************************)
(* Properties of the join.                                                 *)
(***************************************************************************)
\* the paths of lines h that stand under a header, each once, in the order
\* of their first appearance
RECURSIVE FirstSeen(_, _, _)
FirstSeen(h, underHeader, seen) ==
    IF h = <<>> THEN seen
    ELSE IF Head(h).kind = "hdr" THEN FirstSeen(Tail(h), TRUE, seen)
    ELSE IF /\ Head(h).kind = "path"
            /\ underHeader
            /\ \A k \in 1..Len(seen) : seen[k] # Head(h).text
         THEN FirstSeen(Tail(h), underHeader, Append(seen, Head(h).text))
         ELSE FirstSeen(Tail(h), underHeader, seen)

\* the Markdown paths of the delivered feed in the order of their first
\* appearance, as the report names them
PathsInFeedOrder ==
    LET seen == FirstSeen(SubSeq(history, 1, LinesDelivered), FALSE, <<>>)
        md   == SelectSeq(seen, LAMBDA p : EndsWith(p, MdSuffix))
    IN  [k \in 1..Len(md) |-> RemoveFirst(md[k], SrcPrefix)]

\* C21: until the join the report is empty, whatever tasks have returned;
\* the finished report holds the items of all tasks, and its paths are the
\* Markdown paths of the feed in the order of their first appearance,
\* whatever the order in which the tasks returned.
C21_ReportInIndexOrder ==
    /\ phase # "done" => report = <<>>
    /\ phase = "done" =>
          /\ Len(returned) = Len(tasks)
          /\ report = [i \in Tasks |-> tasks[i].item]
          /\ [i \in 1..Len(report) |-> report[i].path] = PathsInFeedOrder

\* a finished report of a feed that names b.md before a.md, whose second
\* task returned first
C21_Witness ==
    /\ phase = "done"
    /\ returned = <<2, 1>>
    /\ Len(report) = 2
    /\ report[1].path = RemoveFirst(PathB, SrcPrefix)
    /\ report[2].path = RemoveFirst(PathA, SrcPrefix)


(***************************************************************************)
(* Properties of the events of git diff.                                   *)
(***************************************************************************)
\* the values the 'close' handler can resolve with
CloseValues == {DiffCloseValue(n) : n \in DiffLens}

\* once the promise of task i is settled, no step changes it or the diff
\* stored from it; and the entry's diff changes only from null, in the step
\* that settles the promise, to the value it is settled with
SettledOnce(i) ==
    /\ tasks[i].promise.settled =>
          /\ tasks'[i].promise = tasks[i].promise
          /\ tasks'[i].item.diff = tasks[i].item.diff
    /\ tasks'[i].item.diff # tasks[i].item.diff =>
          /\ tasks[i].item.diff = NullDiff
          /\ ~tasks[i].promise.settled
          /\ tasks'[i].promise.settled
          /\ tasks'[i].item.diff = tasks'[i].promise.value

\* C22: the promise of getGitDiff is settled by the first of 'close' and
\* 'error' of git diff (the value of 'close' for the output it had, or the
\* text of 'error'), the entry's diff is that value, and no later event
\* changes the promise or the entry's diff.
C22_FirstEventSettlesDiff ==
    /\ [](\A i \in Tasks :
             /\ tasks[i].promise.settled =>
                   /\ tasks[i].promise.value \in CloseValues \cup {ErrorText}
                   /\ tasks[i].promise.value # ErrorText =>
                         tasks[i].promise.value = DiffCloseValue(tasks[i].dataLen)
                   /\ tasks[i].item.diff = tasks[i].promise.value
             /\ tasks[i].child = "errored" => tasks[i].promise.value = ErrorText
             /\ ~tasks[i].promise.settled => tasks[i].item.diff = NullDiff)
    /\ [][\A i \in Tasks : SettledOnce(i)]_vars

\* the report is written, and 'close' of a git diff has come after its
\* 'error': the entry keeps the text of 'error'
C22_Witness ==
    /\ phase = "done"
    /\ \E i \in Tasks :
          /\ tasks[i].child = "closed"
          /\ tasks[i].dataLen = 0
          /\ tasks[i].promise.value = ErrorText
          /\ report[i].diff = ErrorText

=============================================================================
